---- MODULE Spec2Model ----
(***************************************************************************)
(* Model of src/conn/pool.rs: MyInnerPool, MyPool::new_manual,             *)
(* MyPool::get_conn, MyPooledConn::unwrap and Drop for MyPooledConn.       *)
(*                                                                         *)
(* The pool state lives behind one Mutex; the guard taken at line 94 of    *)
(* get_conn lives until the function returns, and the guard's condition    *)
(* variable is used by wait (line 106) and signal (line 166).              *)
(***************************************************************************)
EXTENDS Integers, Naturals, Sequences, FiniteSets, TLC

\* ---- bounds of the model ----
NumThreads == 3
MaxMax == 2
\* `uint` arithmetic wraps; the machine word is scaled down to this modulus
UintModulus == 8

Threads == 1..NumThreads
ConnIds == 1..(2 * MaxMax)
NoConn == 0

VARIABLES
    built,     \* outcome of MyPool::new_manual: "none" before the call
    min,       \* MyInnerPool.min
    max,       \* MyInnerPool.max
    pool,      \* MyInnerPool.pool : Vec<MyConn>, the idle connections
    count,     \* MyInnerPool.count : uint
    lock,      \* holder of the Mutex, 0 when free
    cond,      \* threads blocked in pool.cond.wait()
    nthreads,  \* number of threads sharing the pool
    pc,        \* position of each thread
    conn,      \* the MyConn each thread has in hand (NoConn for None)
    res,       \* result of the thread's last get_conn call
    scen,      \* observer: progress of the checkout-then-release scenario
    chk        \* observer: what ping and reset did in the thread's last get_conn

vars == <<built, min, max, pool, count, lock, cond, nthreads, pc, conn, res, scen, chk>>

\* ---- helpers ----
Active == 1..nthreads

\* uint subtraction, wrapping
WrapSub(a, b) == (a - b + UintModulus) % UintModulus

RECURSIVE SeqToSet(_)
SeqToSet(s) == IF s = <<>> THEN {} ELSE {Head(s)} \cup SeqToSet(Tail(s))

\* connections that exist inside the pool or in the hands of a thread
InUse == (SeqToSet(pool) \cup {conn[t] : t \in Threads}) \ {NoConn}

\* MyConn::new yields a connection distinct from every existing one
FreshConn == CHOOSE c \in ConnIds : c \notin InUse /\ \A d \in ConnIds : d \notin InUse => c <= d

\* a pop that reads the last element and leaves it in the Vec
PopLastKeeps(s) == s

\* Vec::pop
PopLast(s) == SubSeq(s, 1, Len(s) - 1)
Last(s) == s[Len(s)]

\* the first k connections created by the constructor's loop
InitialConns(k) == [i \in 1..k |-> i]

\* ---- observer of the scenario "max checkouts, then max releases" ----
ScenGet == IF scen[1] = "acq" /\ scen[2] < max THEN <<"acq", scen[2] + 1>> ELSE <<"off", 0>>
ScenRelease ==
    IF scen[1] = "acq" /\ scen[2] = max THEN <<"rel", 1>>
    ELSE IF scen[1] = "rel" /\ scen[2] < max THEN <<"rel", scen[2] + 1>>
    ELSE <<"off", 0>>
ScenOff == <<"off", 0>>

\* NewManual whose validation forgets `max == 0`
NewManualNoZeroCheck(created) ==
    /\ built = "none"
    /\ IF min > max
       THEN /\ built' = "err_invalid"
            /\ UNCHANGED <<pool, count>>
       ELSE IF created < min
       THEN /\ built' = "err_conn"
            /\ UNCHANGED <<pool, count>>
       ELSE /\ built' = "ok"
            /\ pool' = InitialConns(min)
            /\ count' = 0
    /\ scen' = <<"acq", 0>>
    /\ UNCHANGED <<min, max, lock, cond, nthreads, chk, pc, conn, res>>

\* ---- MyInnerPool::new (lines 15-30), via MyPool::new_manual ----
\* created = number of MyConn::new calls that succeed before the first failure
NewManual(created) ==
    /\ built = "none"
    /\ IF min > max \/ max = 0
       THEN /\ built' = "err_invalid"
            /\ UNCHANGED <<pool, count>>
       ELSE IF created < min
       THEN /\ built' = "err_conn"
            /\ UNCHANGED <<pool, count>>
       ELSE /\ built' = "ok"
            /\ pool' = InitialConns(min)
            /\ count' = 0
    /\ scen' = <<"acq", 0>>
    /\ UNCHANGED <<min, max, lock, cond, nthreads, chk, pc, conn, res>>

\* ---- MyPool::get_conn (lines 93-117) ----
\* the call begins: the thread arrives at self.pool.lock()
GetConnCall(t) ==
    /\ built = "ok"
    /\ pc[t] = "out"
    /\ pc' = [pc EXCEPT ![t] = "gc_lock"]
    /\ res' = [res EXCEPT ![t] = "none"]
    /\ chk' = [chk EXCEPT ![t] = "none"]
    /\ UNCHANGED <<built, min, max, pool, count, lock, cond, nthreads, conn, scen>>

\* GrowFail with the counter bumped before the outcome of new_conn is known
GrowFailCounted(t) ==
    /\ pc' = [pc EXCEPT ![t] = "out"]
    /\ res' = [res EXCEPT ![t] = "create_err"]
    /\ scen' = ScenOff
    /\ count' = (count + 1) % UintModulus
    /\ UNCHANGED <<pool, lock, cond, conn>>

\* Err arm of the growth (line 103): the error is returned, the guard dropped
GrowFail(t) ==
    /\ pc' = [pc EXCEPT ![t] = "out"]
    /\ res' = [res EXCEPT ![t] = "create_err"]
    /\ scen' = ScenOff
    /\ UNCHANGED <<pool, count, lock, cond, conn>>

\* Ok arm of the growth (lines 99-102) followed by the pop of line 110
GrowOk(t) ==
    /\ count' = (count + 1) % UintModulus
    /\ conn' = [conn EXCEPT ![t] = Last(Append(pool, FreshConn))]
    /\ pool' = PopLast(Append(pool, FreshConn))
    /\ lock' = t
    /\ pc' = [pc EXCEPT ![t] = "gc_ping"]
    /\ UNCHANGED <<cond, res, scen>>

\* GetConnLoop whose growth test is `count <= max`
GetConnLoopOffByOne(t, createOk) ==
    /\ pc[t] \in {"gc_lock", "gc_relock"}
    /\ lock = 0
    /\ IF pool # <<>>
       THEN /\ conn' = [conn EXCEPT ![t] = Last(pool)]
            /\ pool' = PopLast(pool)
            /\ lock' = t
            /\ pc' = [pc EXCEPT ![t] = "gc_ping"]
            /\ UNCHANGED <<count, cond, res, scen>>
       ELSE IF count <= max
       THEN IF createOk THEN GrowOk(t) ELSE GrowFail(t)
       ELSE /\ cond' = cond \cup {t}
            /\ pc' = [pc EXCEPT ![t] = "gc_wait"]
            /\ UNCHANGED <<pool, count, lock, conn, res, scen>>
    /\ UNCHANGED <<built, min, max, nthreads, chk>>

\* GetConnLoop whose guard is dropped right after the pop of an idle connection
GetConnLoopUnlocksEarly(t, createOk) ==
    /\ pc[t] \in {"gc_lock", "gc_relock"}
    /\ lock = 0
    /\ IF pool # <<>>
       THEN /\ conn' = [conn EXCEPT ![t] = Last(pool)]
            /\ pool' = PopLast(pool)
            /\ lock' = 0
            /\ pc' = [pc EXCEPT ![t] = "gc_ping"]
            /\ UNCHANGED <<count, cond, res, scen>>
       ELSE IF count < max
       THEN IF createOk THEN GrowOk(t) ELSE GrowFail(t)
       ELSE /\ cond' = cond \cup {t}
            /\ pc' = [pc EXCEPT ![t] = "gc_wait"]
            /\ UNCHANGED <<pool, count, lock, conn, res, scen>>
    /\ UNCHANGED <<built, min, max, nthreads, chk>>

\* the thread takes the lock (line 94, or on return from wait) and runs the
\* loop of lines 96-108 up to the pop of line 110, a wait or an error return
GetConnLoop(t, createOk) ==
    /\ pc[t] \in {"gc_lock", "gc_relock"}
    /\ lock = 0
    /\ IF pool # <<>>
       THEN /\ conn' = [conn EXCEPT ![t] = Last(pool)]
            /\ pool' = PopLast(pool)
            /\ lock' = t
            /\ pc' = [pc EXCEPT ![t] = "gc_ping"]
            /\ UNCHANGED <<count, cond, res, scen>>
       ELSE IF count < max
       THEN IF createOk THEN GrowOk(t) ELSE GrowFail(t)
       ELSE /\ cond' = cond \cup {t}
            /\ pc' = [pc EXCEPT ![t] = "gc_wait"]
            /\ UNCHANGED <<pool, count, lock, conn, res, scen>>
    /\ UNCHANGED <<built, min, max, nthreads, chk>>

\* what lines 112-114 did: reset runs only when ping reports not alive
CheckOutcome(pingOk, resetOk) ==
    IF pingOk THEN "ping_ok" ELSE IF resetOk THEN "reset_ok" ELSE "reset_failed"

\* GetConnPing that discards the result of conn.reset() and wraps anyway
GetConnPingIgnoresReset(t, pingOk, resetOk) ==
    /\ pc[t] = "gc_ping"
    /\ lock = t
    /\ lock' = 0
    /\ pc' = [pc EXCEPT ![t] = "held"]
    /\ res' = [res EXCEPT ![t] = "ok"]
    /\ scen' = ScenGet
    /\ UNCHANGED conn
    /\ chk' = [chk EXCEPT ![t] = CheckOutcome(pingOk, resetOk)]
    /\ UNCHANGED <<built, min, max, pool, count, cond, nthreads>>

\* lines 112-116: ping, reset if needed, wrap; the guard is dropped on return
GetConnPing(t, pingOk, resetOk) ==
    /\ pc[t] = "gc_ping"
    /\ lock = t
    /\ lock' = 0
    /\ IF pingOk \/ resetOk
       THEN /\ pc' = [pc EXCEPT ![t] = "held"]
            /\ res' = [res EXCEPT ![t] = "ok"]
            /\ scen' = ScenGet
            /\ UNCHANGED conn
       ELSE /\ pc' = [pc EXCEPT ![t] = "out"]
            /\ res' = [res EXCEPT ![t] = "reset_err"]
            /\ conn' = [conn EXCEPT ![t] = NoConn]
            /\ scen' = ScenOff
    /\ chk' = [chk EXCEPT ![t] = CheckOutcome(pingOk, resetOk)]
    /\ UNCHANGED <<built, min, max, pool, count, cond, nthreads>>

\* ---- MyPooledConn::unwrap (lines 191-194) ----
\* take_unwrap moves the MyConn to the caller; the wrapper is dropped next
Unwrap(t) ==
    /\ pc[t] = "held"
    /\ pc' = [pc EXCEPT ![t] = "unwrapped"]
    /\ conn' = [conn EXCEPT ![t] = NoConn]
    /\ scen' = ScenOff
    /\ UNCHANGED <<built, min, max, pool, count, lock, cond, nthreads, chk, res>>

\* ---- Drop for MyPooledConn (lines 158-168) ----
\* cond.signal() wakes one blocked thread, if there is one
Signal(t) ==
    IF cond = {}
    THEN pc' = [pc EXCEPT ![t] = "out"] /\ cond' = cond
    ELSE \E w \in cond :
            /\ pc' = [pc EXCEPT ![t] = "out", ![w] = "gc_relock"]
            /\ cond' = cond \ {w}

\* Drop whose test is `count >= min`
DropGeMin(t) ==
    /\ pc[t] \in {"held", "unwrapped"}
    /\ lock = 0
    /\ IF count >= min \/ conn[t] = NoConn
       THEN /\ count' = WrapSub(count, 1)
            /\ UNCHANGED pool
       ELSE /\ pool' = Append(pool, conn[t])
            /\ UNCHANGED count
    /\ Signal(t)
    /\ conn' = [conn EXCEPT ![t] = NoConn]
    /\ scen' = IF pc[t] = "held" THEN ScenRelease ELSE ScenOff
    /\ UNCHANGED <<built, min, max, lock, nthreads, chk, res>>

\* Drop whose discarding branch forgets `pool.count -= 1`
DropNoDecrement(t) ==
    /\ pc[t] \in {"held", "unwrapped"}
    /\ lock = 0
    /\ IF count > min \/ conn[t] = NoConn
       THEN UNCHANGED <<pool, count>>
       ELSE /\ pool' = Append(pool, conn[t])
            /\ UNCHANGED count
    /\ Signal(t)
    /\ conn' = [conn EXCEPT ![t] = NoConn]
    /\ scen' = IF pc[t] = "held" THEN ScenRelease ELSE ScenOff
    /\ UNCHANGED <<built, min, max, lock, nthreads, chk, res>>

Drop(t) ==
    /\ pc[t] \in {"held", "unwrapped"}
    /\ lock = 0
    /\ IF count > min \/ conn[t] = NoConn
       THEN /\ count' = WrapSub(count, 1)
            /\ UNCHANGED pool
       ELSE /\ pool' = Append(pool, conn[t])
            /\ UNCHANGED count
    /\ Signal(t)
    /\ conn' = [conn EXCEPT ![t] = NoConn]
    /\ scen' = IF pc[t] = "held" THEN ScenRelease ELSE ScenOff
    /\ UNCHANGED <<built, min, max, lock, nthreads, chk, res>>

\* ---- the system ----
InitCommon ==
    /\ built = "none"
    /\ pool = <<>>
    /\ count = 0
    /\ lock = 0
    /\ cond = {}
    /\ pc = [t \in Threads |-> "out"]
    /\ conn = [t \in Threads |-> NoConn]
    /\ res = [t \in Threads |-> "none"]
    /\ scen = <<"off", 0>>
    /\ chk = [t \in Threads |-> "none"]

Init ==
    /\ InitCommon
    /\ min \in 0..MaxMax
    /\ max \in 0..MaxMax
    /\ nthreads \in 1..NumThreads

Next ==
    \/ \E k \in 0..MaxMax : k <= min /\ NewManual(k)
    \/ \E t \in Active : GetConnCall(t)
    \/ \E t \in Active : \E ok \in BOOLEAN : GetConnLoop(t, ok)
    \/ \E t \in Active : \E p \in BOOLEAN, r \in BOOLEAN : GetConnPing(t, p, r)
    \/ \E t \in Active : Unwrap(t)
    \/ \E t \in Active : Drop(t)

Spec == Init /\ [][Next]_vars

TypeOK ==
    /\ built \in {"none", "ok", "err_invalid", "err_conn"}
    /\ min \in 0..MaxMax /\ max \in 0..MaxMax
    /\ count \in 0..(UintModulus - 1)
    /\ lock \in {0} \cup Threads
    /\ cond \subseteq Threads
    /\ \A t \in Threads : conn[t] \in ConnIds \cup {NoConn}
    /\ \A i \in 1..Len(pool) : pool[i] \in ConnIds

\* ---- a pool whose every creation and reset succeeds, shared by N <= max
\* threads that never unwrap ----
InitLive ==
    /\ InitCommon
    /\ max \in 1..MaxMax
    /\ min \in 0..max
    /\ nthreads \in 1..NumThreads
    /\ nthreads <= max

NextLive ==
    \/ NewManual(min)
    \/ \E t \in Active : GetConnCall(t)
    \/ \E t \in Active : GetConnLoop(t, TRUE)
    \/ \E t \in Active : \E p \in BOOLEAN : GetConnPing(t, p, TRUE)
    \/ \E t \in Active : Drop(t)

\* the Mutex queues its waiters, so a thread that keeps asking for the lock
\* gets it; a thread holding a MyPooledConn reaches the end of its scope
FairLive ==
    \A t \in Threads :
        /\ SF_vars(GetConnLoop(t, TRUE))
        /\ WF_vars(\E p \in BOOLEAN : GetConnPing(t, p, TRUE))
        /\ SF_vars(Drop(t))

LiveSpec == InitLive /\ [][NextLive]_vars /\ FairLive

\* ---- any number of threads, valid bounds, no creation or reset failure ----
InitNoFail ==
    /\ InitCommon
    /\ max \in 1..MaxMax
    /\ min \in 0..max
    /\ nthreads \in 1..NumThreads

NextNoFail ==
    \/ NewManual(min)
    \/ \E t \in Active : GetConnCall(t)
    \/ \E t \in Active : GetConnLoop(t, TRUE)
    \/ \E t \in Active : \E p \in BOOLEAN : GetConnPing(t, p, TRUE)
    \/ \E t \in Active : Unwrap(t)
    \/ \E t \in Active : Drop(t)

NoFailSpec == InitNoFail /\ [][NextNoFail]_vars

\* ---- quantities the claims speak of ----
\* wrappers that hold a connection, and connections a get_conn has popped
Holders == {t \in Threads : conn[t] # NoConn}
\* live connections owned by the pool: idle ones plus checked-out ones
Live == Len(pool) + Cardinality(Holders)
HeldBy == {t \in Threads : pc[t] = "held"}

\* C1: in every state of a constructed pool the number of live connections
\* (idle plus checked out) is at most max.
C1_NonExceedance == built = "ok" => Live <= max

\* C2: in every state of a constructed pool 0 <= count <= max.
C2_CountInRange == built = "ok" => (0 <= count /\ count <= max)

\* C3: whenever the pool lock is free, the idle list is no longer than count.
C3_IdleAtMostCount == (built = "ok" /\ lock = 0) => Len(pool) <= count

\* C4: the step that completes a successful construction leaves count = min
\* and exactly min idle connections.
C4_AfterConstruction ==
    [][(built = "none" /\ built' = "ok") => (count' = min /\ Len(pool') = min)]_vars

\* C6: after max checkouts with no release in between, followed by the
\* release of all max wrappers (no unwrap, no failure), count equals min.
C6_Elasticity == scen = <<"rel", max>> => count = min

\* C7: in every state of a constructed pool the number of live connections
\* (idle plus checked out) is at least min.
C7_MinimumRetention == built = "ok" => Live >= min

\* C8: while max wrappers returned by get_conn are all still held, no
\* further get_conn call returns a connection.
C8_SaturationBlocks ==
    [][(built = "ok" /\ Cardinality(HeldBy) = max)
          => \A t \in Threads : pc[t] # "held" => pc'[t] # "held"]_vars

\* C9: the drop of an unwrapped MyPooledConn leaves the idle list unchanged
\* and makes count exactly one less than it was.
C9_UnwrappedRelease ==
    [][\A t \in Threads : (pc[t] = "unwrapped" /\ pc'[t] = "out")
          => (pool' = pool /\ count' = count - 1)]_vars

C10_FailedGrowthUnchanged ==
    [][\A t \in Threads :
          (/\ pc[t] \in {"gc_lock", "gc_relock"}
           /\ pool = <<>> /\ count < max
           /\ pc'[t] \notin {pc[t], "gc_ping"})
          => (/\ res'[t] = "create_err"
              /\ pc'[t] = "out"
              /\ count' = count
              /\ pool' = pool
              /\ lock' = 0)]_vars
\* a get_conn call has returned a creation error
C10_Witness ==
    \E t \in Threads : res[t] = "create_err" /\ pc[t] = "out" /\ pool = <<>> /\ count < max

\* every thread but t is outside any call and holds no wrapper
OthersOut(t) == \A u \in Threads \ {t} : pc[u] = "out"

\* C11: once a get_conn call has returned a reset error, a get_conn call
\* that takes the lock while no MyPooledConn is outstanding and no other call
\* is in progress does not go to block in wait, where nothing could signal it.
C11_ResetFailureNotFatal ==
    [][\A t \in Threads :
          (/\ pc[t] = "gc_lock"
           /\ OthersOut(t)
           /\ \E u \in Threads \ {t} : res[u] = "reset_err"
           /\ count <= max)
          => pc'[t] # "gc_wait"]_vars

\* C12: a get_conn that returns a connection saw its ping pass or its reset
\* succeed; when the reset fails the call returns the reset error, hands out
\* no connection and the connection is not in the idle list.
C12_ReuseCorrectness ==
    [][\A t \in Threads :
          (pc[t] = "gc_ping" /\ pc'[t] # "gc_ping")
          => IF chk'[t] \in {"ping_ok", "reset_ok"}
             THEN pc'[t] = "held" /\ res'[t] = "ok" /\ conn'[t] = conn[t]
             ELSE /\ chk'[t] = "reset_failed"
                  /\ pc'[t] = "out" /\ res'[t] = "reset_err"
                  /\ conn'[t] = NoConn
                  /\ conn[t] \notin SeqToSet(pool')]_vars
\* one call returned a reset error, another returned a connection after a reset
C12_Witness ==
    \E t, u \in Threads :
        /\ chk[t] = "reset_failed" /\ res[t] = "reset_err" /\ pc[t] = "out"
        /\ chk[u] = "reset_ok" /\ pc[u] = "held"

\* C13 as stated: while a thread is inside ping/reset the pool lock is not
\* held by it, so another thread can take it.
C13_PingOutsideLock == \A t \in Threads : pc[t] = "gc_ping" => lock # t

\* C13 amended: ping and reset run with the pool lock held; while a thread is
\* inside them no other thread can enter get_conn's loop or run a release.
C13_PingUnderLock ==
    \A t \in Threads : pc[t] = "gc_ping" =>
        /\ lock = t
        /\ \A u \in Threads \ {t} :
              /\ ~ ENABLED GetConnLoop(u, TRUE)
              /\ ~ ENABLED Drop(u)
\* a thread is inside ping/reset while one waits for the lock in get_conn and
\* another holds a wrapper it could release
C13_Witness ==
    \E t, u, w \in Threads :
        /\ pc[t] = "gc_ping" /\ pc[u] = "gc_lock" /\ pc[w] = "held"

\* C14: after a get_conn call returned a creation error, no thread is left
\* blocked in wait while idle is empty and count < max with every other
\* thread outside the pool.
C14_CreateFailureNoStrand ==
    ~ \E t \in Threads :
        /\ pc[t] = "gc_wait"
        /\ OthersOut(t)
        /\ \E u \in Threads : res[u] = "create_err"
        /\ pool = <<>> /\ count < max

\* C15: new_manual returns InvalidPoolConstraints, with no connection created,
\* exactly when min > max or max == 0; otherwise it goes on to create the min
\* initial connections.
C15_ConstructionValidation ==
    [][(built = "none" /\ built' # "none") =>
          /\ (built' = "err_invalid") <=> (min > max \/ max = 0)
          /\ built' = "err_invalid" => pool' = <<>>
          /\ built' = "ok" => Len(pool') = min]_vars
\* new_manual(0, 0) was rejected
C15_Witness == built = "err_invalid" /\ min = 0 /\ max = 0

\* C16: the drop of a wrapper that still holds its connection discards it
\* and decrements count when count > min, and otherwise pushes it onto idle
\* with count unchanged; either way one waiter, if any, is woken.
C16_ReleaseRule ==
    [][\A t \in Threads :
          (pc[t] = "held" /\ pc'[t] = "out") =>
             /\ IF count > min
                THEN count' = count - 1 /\ pool' = pool
                ELSE pool' = Append(pool, conn[t]) /\ count' = count
             /\ IF cond = {}
                THEN cond' = cond
                ELSE \E w \in cond : cond' = cond \ {w} /\ pc'[w] = "gc_relock"]_vars
\* a first release pushed its connection back while the counter is above zero
C16_Witness == scen = <<"rel", 1>> /\ pool # <<>> /\ count > 0

\* C17: without creation or reset failures, a thread that was blocked in wait
\* and has been woken by a release returns a connection: with every other
\* thread outside the pool it does not go back to wait, where no further
\* signal could reach it.
C17_WokenWaiterReturns ==
    [][\A t \in Threads :
          (pc[t] = "gc_relock" /\ OthersOut(t)) => pc'[t] # "gc_wait"]_vars

\* C18: no connection is in two places: idle has no duplicates, no wrapper's
\* connection is in idle, and no two threads have the same connection.
C18_ExclusiveOwnership ==
    /\ Cardinality(SeqToSet(pool)) = Len(pool)
    /\ \A t \in Threads : conn[t] # NoConn =>
          /\ conn[t] \notin SeqToSet(pool)
          /\ \A u \in Threads \ {t} : conn[u] # conn[t]
\* two wrappers are held while a connection is idle
C18_Witness == Cardinality(HeldBy) >= 2 /\ pool # <<>>

\* C19: the number of live connections (idle plus checked out) is at most
\* min + max.
C19_AtMostMinPlusMax == built = "ok" => Live <= min + max
\* the bound is attained with min >= 1
C19_Witness == built = "ok" /\ min >= 1 /\ Live = min + max

\* C20: the release never decrements count while count is 0.
C20_NoUnderflow ==
    [][\A t \in Threads :
          (pc[t] \in {"held", "unwrapped"} /\ pc'[t] = "out" /\ count' # count)
          => count > 0]_vars
====
